---- MODULE Spec2Model ----
(***************************************************************************)
(* Metropolis Monte Carlo engine of MCGPU: the molecular state store with  *)
(* its single-slot checkpoint (Box), the neighbour batcher, the pairwise   *)
(* energy kernel, the strided reduction and the acceptance loop            *)
(* (ParallelSim::runParallel).                                             *)
(*                                                                         *)
(* Real numbers are fixed point: the integer v stands for v / RealScale.   *)
(* Arrays are functions over 0 .. n-1, as in the source.                   *)
(***************************************************************************)
EXTENDS Integers, Sequences, FiniteSets, TLC

(* ------------------------------------------------------------------ *)
(* Bounds of the model                                                 *)
(* ------------------------------------------------------------------ *)
\* total number of Metropolis steps over all calls of runParallel
MaxMoves == 2
\* longest buffer given to the reduction on its own
MaxLen == 10
\* largest box length given to makePeriodic on its own
MaxBox == 6
\* number of calls a direct caller makes of the Box methods
MaxCalls == 3

(* ------------------------------------------------------------------ *)
(* Real arithmetic                                                     *)
(* ------------------------------------------------------------------ *)
RealScale == 100

R(n) == n * RealScale

\* what a division by zero leaves in a Real: an infinity or a NaN, in either
\* case not a finite energy
NonFinite == R(R(R(1)))

\* C division of reals, rounded towards zero on the fixed-point grid
Quot(a, b) ==
    IF b = 0 THEN NonFinite
    ELSE IF (a >= 0) = (b > 0)
         THEN (IF a >= 0 THEN a ELSE -a) \div (IF b > 0 THEN b ELSE -b)
         ELSE -((IF a >= 0 THEN a ELSE -a) \div (IF b > 0 THEN b ELSE -b))

RMul(a, b) == Quot(a * b, RealScale)

RDiv(a, b) == Quot(a * RealScale, b)

RECURSIVE ISqrtBetween(_, _, _)
ISqrtBetween(n, lo, hi) ==
    IF hi - lo <= 1 THEN lo
    ELSE LET mid == (lo + hi) \div 2
         IN  IF mid * mid <= n THEN ISqrtBetween(n, mid, hi)
                               ELSE ISqrtBetween(n, lo, mid)

\* sqrt of a real
RSqrt(a) == IF a <= 0 THEN 0 ELSE ISqrtBetween(a * RealScale, 0, a * RealScale + 1)

\* exp of a real a <= 0: halve the argument until the series is accurate,
\* underflowing to 0 for very negative arguments as the floating type does
RECURSIVE RExp(_)
RExp(a) ==
    IF a >= 0 THEN R(1)
    ELSE IF a < -R(8) THEN 0
    ELSE IF a >= -(RealScale \div 4)
         THEN R(1) + a + Quot(RMul(a, a), 2)
         ELSE LET h == Quot(a, 2) IN RMul(RExp(h), RExp(a - h))

(* ------------------------------------------------------------------ *)
(* Periodic geometry and the pair potential (device functions)         *)
(* ------------------------------------------------------------------ *)
\* an if in place of the first loop
PeriodicUpOnce(x, box) == IF 2 * x < -box THEN x + box ELSE x

\* first loop of makePeriodic; 0.5 * box is exact in binary floating point,
\* so  x < -0.5 * box  is  2x < -box
RECURSIVE PeriodicUp(_, _)
PeriodicUp(x, box) == IF 2 * x < -box THEN PeriodicUp(x + box, box) ELSE x

\* second loop of makePeriodic
RECURSIVE PeriodicDown(_, _)
PeriodicDown(x, box) == IF 2 * x > box THEN PeriodicDown(x - box, box) ELSE x

makePeriodic(x, box) == PeriodicDown(PeriodicUp(x, box), box)

calcBlending(d1, d2) == RSqrt(RMul(d1, d2))

\* Lennard-Jones with the constants of atom1 alone
calc_ljOneSided(atom1, atom2, r2) ==
    LET sigma   == calcBlending(atom1.sigma, atom1.sigma)
        epsilon == calcBlending(atom1.epsilon, atom1.epsilon)
    IN  IF r2 = 0 THEN 0
        ELSE LET sig2OverR2   == RDiv(RMul(sigma, sigma), r2)
                 sig6OverR6   == RMul(RMul(sig2OverR2, sig2OverR2), sig2OverR2)
                 sig12OverR12 == RMul(sig6OverR6, sig6OverR6)
             IN  RMul(RMul(R(4), epsilon), sig12OverR12 - sig6OverR6)

calc_lj(atom1, atom2, r2) ==
    LET sigma   == calcBlending(atom1.sigma, atom2.sigma)
        epsilon == calcBlending(atom1.epsilon, atom2.epsilon)
    IN  IF r2 = 0 THEN 0
        ELSE LET sig2OverR2   == RDiv(RMul(sigma, sigma), r2)
                 sig6OverR6   == RMul(RMul(sig2OverR2, sig2OverR2), sig2OverR2)
                 sig12OverR12 == RMul(sig6OverR6, sig6OverR6)
             IN  RMul(RMul(R(4), epsilon), sig12OverR12 - sig6OverR6)

\* 332.06, the conversion factor for units in kcal/mol
CoulombE == (33206 * RealScale) \div 100

\* the Coulomb term without the test of r
calcChargeUnguarded(charge1, charge2, r) ==
    RDiv(RMul(RMul(charge1, charge2), CoulombE), r)

calcCharge(charge1, charge2, r) ==
    IF r = 0 THEN 0
    ELSE RDiv(RMul(RMul(charge1, charge2), CoulombE), r)

\* the divisors of the divisions a call of calc_lj performs
LjDivisors(r2) == IF r2 = 0 THEN {} ELSE {r2}

\* the divisors of the divisions a call of calcCharge performs
ChargeDivisors(r) == IF r = 0 THEN {} ELSE {r}

\* squared minimum-image distance of two atoms
AtomR2(atom1, atom2, enviro) ==
    LET deltaX == makePeriodic(atom1.x - atom2.x, enviro.x)
        deltaY == makePeriodic(atom1.y - atom2.y, enviro.y)
        deltaZ == makePeriodic(atom1.z - atom2.z, enviro.z)
    IN  RMul(deltaX, deltaX) + RMul(deltaY, deltaY) + RMul(deltaZ, deltaZ)

\* the value an active cell of calcInterAtomicEnergy writes
CellEnergy(atom1, atom2, enviro) ==
    LET r2 == AtomR2(atom1, atom2, enviro)
    IN  calc_lj(atom1, atom2, r2) + calcCharge(atom1.charge, atom2.charge, RSqrt(r2))

(* ------------------------------------------------------------------ *)
(* Launch configuration and flags (ParallelCalcs.h)                    *)
(* ------------------------------------------------------------------ *)
NO == 0
YES == 1
MOL_BLOCK == 2
BATCH_BLOCK == 4
AGG_BLOCK == 4
MAX_WARP == 2

\* lanes of a launch <<<blocks, blockSize>>>
Lanes(blocks, blockSize) == 0 .. (blocks * blockSize - 1)

(* ------------------------------------------------------------------ *)
(* Neighbour batcher                                                   *)
(* ------------------------------------------------------------------ *)
\* the slots of inCutoff lane otherMol can write; it reads none of them
DistanceLaneWrites(moleculeCount, otherMol) ==
    IF otherMol < moleculeCount THEN {otherMol} ELSE {}

\* one lane of the kernel: does lane otherMol flag its slot
InCutoffLane(molecules, currentMol, startIdx, moleculeCount, enviro, otherMol) ==
    /\ otherMol < moleculeCount
    /\ otherMol >= startIdx
    /\ otherMol # currentMol
    /\ LET atom1 == molecules[currentMol].atoms[enviro.primaryAtomIndex]
           atom2 == molecules[otherMol].atoms[enviro.primaryAtomIndex]
       IN  AtomR2(atom1, atom2, enviro) < RMul(enviro.cutoff, enviro.cutoff)

\* the kernel launch: every lane owns the slot of its own index
checkMoleculeDistances(molecules, currentMol, startIdx, moleculeCount, enviro, inCutoff) ==
    LET lanes == Lanes(moleculeCount \div MOL_BLOCK + 1, MOL_BLOCK)
    IN  [otherMol \in DOMAIN inCutoff |->
            IF /\ otherMol \in lanes
               /\ InCutoffLane(molecules, currentMol, startIdx, moleculeCount, enviro, otherMol)
            THEN YES
            ELSE inCutoff[otherMol]]

\* a loop that stores index i in slot i instead of compacting
RECURSIVE BatchLoopSparse(_, _, _, _, _)
BatchLoopSparse(nbrMols, molBatch, batchSize, i, moleculeCount) ==
    IF i >= moleculeCount
    THEN [batchSize |-> batchSize, molBatchH |-> molBatch]
    ELSE IF nbrMols[i] = YES
         THEN BatchLoopSparse(nbrMols, [molBatch EXCEPT ![i] = i], batchSize + 1,
                              i + 1, moleculeCount)
         ELSE BatchLoopSparse(nbrMols, molBatch, batchSize, i + 1, moleculeCount)

\* the compaction loop of createMolBatch, from index i on
RECURSIVE BatchLoop(_, _, _, _, _)
BatchLoop(nbrMols, molBatch, batchSize, i, moleculeCount) ==
    IF i >= moleculeCount
    THEN [batchSize |-> batchSize, molBatchH |-> molBatch]
    ELSE IF nbrMols[i] = YES
         THEN BatchLoop(nbrMols, [molBatch EXCEPT ![batchSize] = i], batchSize + 1,
                        i + 1, moleculeCount)
         ELSE BatchLoop(nbrMols, molBatch, batchSize, i + 1, moleculeCount)

createMolBatch(molecules, enviro, moleculeCount, curentMol, startIdx) ==
    LET cleared  == [i \in 0 .. moleculeCount - 1 |-> NO]
        nbrMolsD == checkMoleculeDistances(molecules, curentMol, startIdx,
                                           moleculeCount, enviro, cleared)
        emptied  == [i \in 0 .. moleculeCount - 1 |-> -1]
        filled   == BatchLoop(nbrMolsD, emptied, 0, startIdx, moleculeCount)
    IN  [batchSize |-> filled.batchSize,
         molBatchH |-> filled.molBatchH,
         nbrMolsH  |-> nbrMolsD]

(* ------------------------------------------------------------------ *)
(* Pairwise energy kernel                                              *)
(* ------------------------------------------------------------------ *)
\* the slots of energies lane energyIdx can write; it reads none of them
EnergyLaneWrites(energyCount, energyIdx) ==
    IF energyIdx < energyCount THEN {energyIdx} ELSE {}

\* a lane that writes its slot whatever the sigma and epsilon of the atoms
ActiveCellAnySite(molecules, currentMol, energyCount, molBatch, maxMolSize, energyIdx) ==
    LET segmentSize == maxMolSize * maxMolSize
    IN  /\ energyIdx < energyCount
        /\ molBatch[energyIdx \div segmentSize] # -1
        /\ LET mol1 == molecules[currentMol]
               mol2 == molecules[molBatch[energyIdx \div segmentSize]]
               x    == (energyIdx % segmentSize) \div maxMolSize
               y    == (energyIdx % segmentSize) % maxMolSize
           IN  /\ x < mol1.numOfAtoms
               /\ y < mol2.numOfAtoms

\* does lane energyIdx write its slot
ActiveCell(molecules, currentMol, energyCount, molBatch, maxMolSize, energyIdx) ==
    LET segmentSize == maxMolSize * maxMolSize
    IN  /\ energyIdx < energyCount
        /\ molBatch[energyIdx \div segmentSize] # -1
        /\ LET mol1 == molecules[currentMol]
               mol2 == molecules[molBatch[energyIdx \div segmentSize]]
               x    == (energyIdx % segmentSize) \div maxMolSize
               y    == (energyIdx % segmentSize) % maxMolSize
           IN  /\ x < mol1.numOfAtoms
               /\ y < mol2.numOfAtoms
               /\ mol1.atoms[x].sigma >= 0
               /\ mol1.atoms[x].epsilon >= 0
               /\ mol2.atoms[y].sigma >= 0
               /\ mol2.atoms[y].epsilon >= 0

\* the value lane energyIdx writes when it is active
CellValue(molecules, currentMol, enviro, molBatch, maxMolSize, energyIdx) ==
    LET segmentSize == maxMolSize * maxMolSize
        mol1 == molecules[currentMol]
        mol2 == molecules[molBatch[energyIdx \div segmentSize]]
        x    == (energyIdx % segmentSize) \div maxMolSize
        y    == (energyIdx % segmentSize) % maxMolSize
    IN  CellEnergy(mol1.atoms[x], mol2.atoms[y], enviro)

calcInterAtomicEnergy(molecules, currentMol, enviro, energies, energyCount, molBatch, maxMolSize) ==
    LET lanes == Lanes(energyCount \div BATCH_BLOCK + 1, BATCH_BLOCK)
    IN  [energyIdx \in DOMAIN energies |->
            IF /\ energyIdx \in lanes
               /\ ActiveCell(molecules, currentMol, energyCount, molBatch, maxMolSize, energyIdx)
            THEN CellValue(molecules, currentMol, enviro, molBatch, maxMolSize, energyIdx)
            ELSE energies[energyIdx]]

(* ------------------------------------------------------------------ *)
(* Reduction aggregator                                                *)
(* ------------------------------------------------------------------ *)
\* a lane that adds the slots it consumes without zeroing them
RECURSIVE AggLaneKeep(_, _, _, _, _, _)
AggLaneKeep(energies, energyCount, idx, interval, batchSize, i) ==
    IF i >= batchSize THEN energies
    ELSE IF idx + i * interval < energyCount
         THEN AggLaneKeep([energies EXCEPT ![idx] = energies[idx] + energies[idx + i * interval]],
                          energyCount, idx, interval, batchSize, i + 1)
         ELSE AggLaneKeep(energies, energyCount, idx, interval, batchSize, i + 1)

\* the loop of one lane of aggregateEnergies, from i on
RECURSIVE AggLane(_, _, _, _, _, _)
AggLane(energies, energyCount, idx, interval, batchSize, i) ==
    IF i >= batchSize THEN energies
    ELSE IF idx + i * interval < energyCount
         THEN AggLane([energies EXCEPT ![idx] = energies[idx] + energies[idx + i * interval],
                                       ![idx + i * interval] = 0],
                      energyCount, idx, interval, batchSize, i + 1)
         ELSE AggLane(energies, energyCount, idx, interval, batchSize, i + 1)

\* the slots lane t reads or writes
AggAccesses(energyCount, interval, batchSize, t) ==
    LET idx == batchSize * interval * t
    IN  UNION {{idx, idx + i * interval} : i \in {j \in 1 .. batchSize - 1 :
                                                    idx + j * interval < energyCount}}

\* a launch whose lanes start at interval * t, without the factor batchSize
RECURSIVE aggregateEnergiesDense(_, _, _, _, _, _)
aggregateEnergiesDense(energies, energyCount, interval, batchSize, numLanes, t) ==
    IF t >= numLanes THEN energies
    ELSE aggregateEnergiesDense(
             AggLane(energies, energyCount, interval * t, interval, batchSize, 1),
             energyCount, interval, batchSize, numLanes, t + 1)

\* one launch of aggregateEnergies: lanes t .. numLanes-1 (the lanes touch
\* disjoint slots, so their order does not matter)
RECURSIVE aggregateEnergies(_, _, _, _, _, _)
aggregateEnergies(energies, energyCount, interval, batchSize, numLanes, t) ==
    IF t >= numLanes THEN energies
    ELSE aggregateEnergies(
             AggLane(energies, energyCount, batchSize * interval * t, interval, batchSize, 1),
             energyCount, interval, batchSize, numLanes, t + 1)

\* the branching factor: "a batch size of 3 seems to offer the best tradeoff"
AggBatchSize == 3

\* the block size of the pass with interval i
AggBlockSize(blockSize, numBaseThreads, i) ==
    IF blockSize > MAX_WARP /\ numBaseThreads \div i + 1 < blockSize
    THEN blockSize \div 2
    ELSE blockSize

\* a launch without the block that covers the remainder
AggNumLanesShort(blockSize, numBaseThreads, i) ==
    (numBaseThreads \div (i * blockSize)) * blockSize

\* the number of lanes the pass with interval i launches
AggNumLanes(blockSize, numBaseThreads, i) ==
    (numBaseThreads \div (i * blockSize) + 1) * blockSize

\* one iteration of the loop of getEnergyFromDevice; loop is the loop's
\* state: the buffer, the interval i and blockSize
AggPass(loop, energyCount) ==
    LET numBaseThreads == energyCount \div AggBatchSize
        bs == AggBlockSize(loop.blockSize, numBaseThreads, loop.interval)
    IN  [energies  |-> aggregateEnergies(loop.energies, energyCount, loop.interval,
                                         AggBatchSize,
                                         AggNumLanes(bs, numBaseThreads, loop.interval), 0),
         interval  |-> loop.interval * AggBatchSize,
         blockSize |-> bs]

\* the loop of getEnergyFromDevice
RECURSIVE AggLoop(_, _)
AggLoop(loop, energyCount) ==
    IF loop.interval >= energyCount THEN loop.energies
    ELSE AggLoop(AggPass(loop, energyCount), energyCount)

\* the state of the loop of getEnergyFromDevice when it is entered
AggStart(energies) == [energies |-> energies, interval |-> 1, blockSize |-> AGG_BLOCK]

\* what getEnergyFromDevice does once the loop has ended
AggReadBack(reduced) ==
    [totalEnergy |-> reduced[0],
     energies    |-> [reduced EXCEPT ![0] = 0]]

getEnergyFromDevice(energies, energyCount) ==
    AggReadBack(AggLoop(AggStart(energies), energyCount))

calcBatchEnergy(molecules, enviro, energies, energyCount, molBatchH, maxMolSize, numMols, molIdx) ==
    IF numMols > 0
    THEN getEnergyFromDevice(
             calcInterAtomicEnergy(molecules, molIdx, enviro, [energies EXCEPT ![0] = 0],
                                   energyCount, molBatchH, maxMolSize),
             energyCount)
    ELSE [totalEnergy |-> 0, energies |-> energies]

\* createMolBatch then calcBatchEnergy, with the scratch buffers they leave
calcMolecularEnergyContribution(molecules, enviro, energies, energyCount, maxMolSize, molIdx, startIdx) ==
    LET moleculeCount == enviro.numOfMolecules
        batch == createMolBatch(molecules, enviro, moleculeCount, molIdx, startIdx)
        sum   == calcBatchEnergy(molecules, enviro, energies, energyCount,
                                 batch.molBatchH, maxMolSize, batch.batchSize, molIdx)
    IN  [totalEnergy |-> sum.totalEnergy,
         energies    |-> sum.energies,
         molBatchH   |-> batch.molBatchH,
         nbrMolsH    |-> batch.nbrMolsH]

\* the loop of calcSystemEnergy, from molecule mol on
RECURSIVE SystemLoop(_, _, _, _, _, _, _)
SystemLoop(molecules, enviro, energyCount, maxMolSize, mol, totalEnergy, scratch) ==
    IF mol >= enviro.numOfMolecules
    THEN [totalEnergy |-> totalEnergy,
          energies    |-> scratch.energies,
          molBatchH   |-> scratch.molBatchH,
          nbrMolsH    |-> scratch.nbrMolsH]
    ELSE LET c == calcMolecularEnergyContribution(molecules, enviro, scratch.energies,
                                                  energyCount, maxMolSize, mol, mol)
         IN  SystemLoop(molecules, enviro, energyCount, maxMolSize, mol + 1,
                        totalEnergy + c.totalEnergy, c)

calcSystemEnergy(molecules, enviro, energyCount, maxMolSize, scratch) ==
    SystemLoop(molecules, enviro, energyCount, maxMolSize, 0, 0, scratch)

(* ------------------------------------------------------------------ *)
(* Molecular state store (Box)                                         *)
(* ------------------------------------------------------------------ *)
\* copyMolecule with a loop that stops one element early
CopyArrayShort(dst, src, n) ==
    [i \in DOMAIN dst |-> IF i < n - 1 THEN src[i] ELSE dst[i]]

\* the element loop of copyMolecule for one sub-array: n elements of src
\* go into dst (dst keeps its allocation)
CopyArray(dst, src, n) ==
    [i \in DOMAIN dst |-> IF i < n THEN src[i] ELSE dst[i]]

copyMolecule(mole_dst, mole_src) ==
    [mole_dst EXCEPT
        !.numOfAtoms     = mole_src.numOfAtoms,
        !.numOfBonds     = mole_src.numOfBonds,
        !.numOfAngles    = mole_src.numOfAngles,
        !.numOfDihedrals = mole_src.numOfDihedrals,
        !.numOfHops      = mole_src.numOfHops,
        !.id             = mole_src.id,
        !.atoms     = CopyArray(mole_dst.atoms, mole_src.atoms, mole_src.numOfAtoms),
        !.bonds     = CopyArray(mole_dst.bonds, mole_src.bonds, mole_src.numOfBonds),
        !.angles    = CopyArray(mole_dst.angles, mole_src.angles, mole_src.numOfAngles),
        !.dihedrals = CopyArray(mole_dst.dihedrals, mole_src.dihedrals, mole_src.numOfDihedrals),
        !.hops      = CopyArray(mole_dst.hops, mole_src.hops, mole_src.numOfHops)]

\* does copyMolecule write past the end of one of mole_dst's arrays
CopyOverflows(mole_dst, mole_src) ==
    \/ mole_src.numOfAtoms     > Cardinality(DOMAIN mole_dst.atoms)
    \/ mole_src.numOfBonds     > Cardinality(DOMAIN mole_dst.bonds)
    \/ mole_src.numOfAngles    > Cardinality(DOMAIN mole_dst.angles)
    \/ mole_src.numOfDihedrals > Cardinality(DOMAIN mole_dst.dihedrals)
    \/ mole_src.numOfHops      > Cardinality(DOMAIN mole_dst.hops)

\* malloc(sizeof(T) * n): n slots, every one of which copyMolecule fills next
Malloc(n) == [i \in 0 .. n - 1 |-> 0]

\* the new content of changedmole
saveChangedMole(mole_src) ==
    copyMolecule([mole_src EXCEPT
                     !.atoms     = Malloc(mole_src.numOfAtoms),
                     !.bonds     = Malloc(mole_src.numOfBonds),
                     !.angles    = Malloc(mole_src.numOfAngles),
                     !.dihedrals = Malloc(mole_src.numOfDihedrals),
                     !.hops      = Malloc(mole_src.numOfHops)],
                 mole_src)

\* a Rollback with the arguments of copyMolecule exchanged: the molecule
\* is copied into the slot and stays as it is
RollbackReversed(mole, slot) == mole

\* the new content of molecules[moleno]
Rollback(mole, slot) == copyMolecule(mole, slot)

\* a quarter turn count from an angle in degrees
Quarter(degrees) == Quot(degrees, R(90))

RotateX(p, q) ==
    IF q = 0 THEN p
    ELSE IF q > 0 THEN [x |-> p.x, y |-> -p.z, z |-> p.y]
                  ELSE [x |-> p.x, y |-> p.z, z |-> -p.y]

RotateY(p, q) ==
    IF q = 0 THEN p
    ELSE IF q > 0 THEN [x |-> p.z, y |-> p.y, z |-> -p.x]
                  ELSE [x |-> -p.z, y |-> p.y, z |-> p.x]

RotateZ(p, q) ==
    IF q = 0 THEN p
    ELSE IF q > 0 THEN [x |-> -p.y, y |-> p.x, z |-> p.z]
                  ELSE [x |-> p.y, y |-> -p.x, z |-> p.z]

\* rotate the atoms about the pivot, then translate them
moveMolecule(molec, pivot, deltaX, deltaY, deltaZ, degreesX, degreesY, degreesZ) ==
    [molec EXCEPT !.atoms =
        [i \in DOMAIN molec.atoms |->
            IF i < molec.numOfAtoms
            THEN LET a   == molec.atoms[i]
                     rel == [x |-> a.x - pivot.x, y |-> a.y - pivot.y, z |-> a.z - pivot.z]
                     rot == RotateZ(RotateY(RotateX(rel, Quarter(degreesX)),
                                            Quarter(degreesY)), Quarter(degreesZ))
                 IN  [a EXCEPT !.x = pivot.x + rot.x + deltaX,
                               !.y = pivot.y + rot.y + deltaY,
                               !.z = pivot.z + rot.z + deltaZ]
            ELSE molec.atoms[i]]]

RECURSIVE WrapUp(_, _)
WrapUp(c, box) == IF c < 0 THEN WrapUp(c + box, box) ELSE c

RECURSIVE WrapDown(_, _)
WrapDown(c, box) == IF c >= box THEN WrapDown(c - box, box) ELSE c

wrapBox(c, box) == WrapDown(WrapUp(c, box), box)

\* a loop that stops one atom early
keepMoleculeInBoxShort(molecule, enviro) ==
    [molecule EXCEPT !.atoms =
        [j \in DOMAIN molecule.atoms |->
            IF j < molecule.numOfAtoms - 1
            THEN [molecule.atoms[j] EXCEPT
                     !.x = wrapBox(molecule.atoms[j].x, enviro.x),
                     !.y = wrapBox(molecule.atoms[j].y, enviro.y),
                     !.z = wrapBox(molecule.atoms[j].z, enviro.z)]
            ELSE molecule.atoms[j]]]

keepMoleculeInBox(molecule, enviro) ==
    [molecule EXCEPT !.atoms =
        [j \in DOMAIN molecule.atoms |->
            IF j < molecule.numOfAtoms
            THEN [molecule.atoms[j] EXCEPT
                     !.x = wrapBox(molecule.atoms[j].x, enviro.x),
                     !.y = wrapBox(molecule.atoms[j].y, enviro.y),
                     !.z = wrapBox(molecule.atoms[j].z, enviro.z)]
            ELSE molecule.atoms[j]]]

\* the part of changeMolecule after saveChangedMole: the new molecules[molIdx]
Perturb(mole, enviro, atomIndex, delta, degrees) ==
    keepMoleculeInBox(
        moveMolecule(mole, mole.atoms[atomIndex], delta[1], delta[2], delta[3],
                     degrees[1], degrees[2], degrees[3]),
        enviro)

\* randomReal(-maxTranslation, maxTranslation), on the lattice
Translations(enviro) == {-enviro.maxTranslation, 0, enviro.maxTranslation}

\* randomReal(-maxRotation, maxRotation), in quarter turns
Rotations(enviro) == {0, enviro.maxRotation}

\* (int) randomReal(0, n)
RandomIndex(n) == IF n <= 0 THEN {0} ELSE 0 .. n - 1

\* every molecule the random draws of changeMolecule can make of mole
Perturbations(mole, enviro) ==
    {Perturb(mole, enviro, atomIndex, delta, degrees) :
        atomIndex \in RandomIndex(mole.numOfAtoms),
        delta \in Translations(enviro) \X Translations(enviro) \X Translations(enviro),
        degrees \in Rotations(enviro) \X Rotations(enviro) \X Rotations(enviro)}

(* ------------------------------------------------------------------ *)
(* State                                                               *)
(* ------------------------------------------------------------------ *)
VARIABLES
    environment,    \* Box::environment, ParallelSim::environmentD
    moleculesH,     \* Box::molecules, the host pool
    changedmole,    \* Box::changedmole, the checkpoint slot
    fault,          \* "none", or how an out-of-bounds copy ended: "crash", "corrupt"
    slotOwner,      \* history: index of the molecule changedmole was saved from, -1 if none
    lastCall,       \* history: the last call of a Box method and the one before it
    saved,          \* history: molecules[m] as it was when changeMolecule(m) was last called
    ncalls,         \* history: number of Box calls made by a direct caller
    stepPool,       \* history: the host pool as it was when the current step began
    moleculesD,     \* ParallelSim::moleculesD, the device pool
    energiesD,      \* ParallelSim::energiesD
    nbrMolsH,       \* ParallelSim::nbrMolsH
    molBatchH,      \* ParallelSim::molBatchH
    oldEnergy,      \* running total energy
    currentEnergy,
    accepted,
    rejected,
    pc,             \* position in runParallel
    steps,          \* argument of runParallel
    move,           \* loop counter of runParallel
    changeIdx,
    oldEnergyCont,
    newEnergyCont,
    accept,
    draw,           \* history: value of randomFloat(0.0, 1.0) of this step, -1 if none
    threshold,      \* history: x of this step, -1 if none
    sysCalls,       \* history: calls of calcSystemEnergy in this call of runParallel
    startCount,     \* history: accepted + rejected when this call of runParallel began
    agg,            \* a reduction run on a buffer of its own
    per,            \* a call of makePeriodic on its own
    pair            \* a pair of atoms evaluated in both orders

boxVars     == <<moleculesH, changedmole, fault, slotOwner, lastCall, saved, ncalls,
                 stepPool>>
scratchVars == <<energiesD, nbrMolsH, molBatchH>>
totalVars   == <<oldEnergy, currentEnergy, accepted, rejected>>
stepVars    == <<steps, move, changeIdx, oldEnergyCont, newEnergyCont>>
drawVars    == <<accept, draw, threshold>>
aloneVars   == <<agg, per, pair>>

vars == <<environment, moleculesH, changedmole, fault, slotOwner, lastCall, saved, ncalls,
          stepPool, moleculesD, energiesD, nbrMolsH, molBatchH,
          oldEnergy, currentEnergy, accepted, rejected,
          pc, steps, move, changeIdx, oldEnergyCont, newEnergyCont,
          accept, draw, threshold, sysCalls, startCount, agg, per, pair>>

(* ------------------------------------------------------------------ *)
(* The loaded system                                                   *)
(* ------------------------------------------------------------------ *)
Arr(seq) == [i \in 0 .. Len(seq) - 1 |-> seq[i + 1]]

MkAtom(x, y, z, sigma, epsilon, charge) ==
    [x |-> R(x), y |-> R(y), z |-> R(z),
     sigma |-> sigma, epsilon |-> epsilon, charge |-> charge]

MkMolecule(id, atoms, bonds, angles, dihedrals, hops) ==
    [id |-> id,
     numOfAtoms |-> Len(atoms), numOfBonds |-> Len(bonds), numOfAngles |-> Len(angles),
     numOfDihedrals |-> Len(dihedrals), numOfHops |-> Len(hops),
     atoms |-> Arr(atoms), bonds |-> Arr(bonds), angles |-> Arr(angles),
     dihedrals |-> Arr(dihedrals), hops |-> Arr(hops)]

\* a validated Environment
InitEnvironment ==
    [x |-> R(4), y |-> R(1), z |-> R(1),
     cutoff |-> 150, temperature |-> R(298),
     maxTranslation |-> R(1), maxRotation |-> R(90),
     primaryAtomIndex |-> 0, numOfAtoms |-> 4, numOfMolecules |-> 3]

\* a populated pool: molecule 1 has two atoms, the second an inert site
InitMolecules ==
    Arr(<<
        MkMolecule(0, <<MkAtom(0, 0, 0, 95, R(1), 10)>>, <<>>, <<>>, <<>>, <<>>),
        MkMolecule(1, <<MkAtom(1, 0, 0, 95, R(1), 0),
                        MkAtom(2, 0, 0, -R(1), -R(1), 50)>>,
                   <<21>>, <<>>, <<>>, <<23>>),
        MkMolecule(2, <<MkAtom(3, 0, 0, R(1), R(2), -10)>>, <<>>, <<>>, <<>>, <<>>)
    >>)

\* Box::changedmole before the first saveChangedMole: nothing allocated
EmptyMolecule == MkMolecule(-1, <<>>, <<>>, <<>>, <<>>, <<>>)

\* ParallelSim::maxMolSize
maxMolSize == 2

\* ParallelSim::energyCount
energyCount == InitEnvironment.numOfMolecules * maxMolSize * maxMolSize

\* Boltzmann constant in kcal/mol/K, in units of 1e-7
kBoltz == 19872

\* kBoltz * temperature
KT(temperature) == Quot(kBoltz * temperature, 10000000)

\* the start index calcMolecularEnergyContribution(molIdx) is given
DefaultStartIdx == 0

NoCall == [op |-> "none", idx |-> -1, matched |-> TRUE, prevOp |-> "none", prevIdx |-> -1]

InitCommon ==
    /\ environment = InitEnvironment
    /\ moleculesH = InitMolecules
    /\ changedmole = EmptyMolecule
    /\ fault = "none"
    /\ slotOwner = -1
    /\ lastCall = NoCall
    /\ saved = EmptyMolecule
    /\ ncalls = 0
    /\ stepPool = InitMolecules
    /\ moleculesD = InitMolecules
    /\ energiesD = [i \in 0 .. energyCount - 1 |-> 0]
    /\ nbrMolsH = [i \in 0 .. InitEnvironment.numOfMolecules - 1 |-> NO]
    /\ molBatchH = [i \in 0 .. InitEnvironment.numOfMolecules - 1 |-> -1]
    /\ oldEnergy = 0
    /\ currentEnergy = 0
    /\ accepted = 0
    /\ rejected = 0
    /\ steps = 0
    /\ move = 0
    /\ changeIdx = 0
    /\ oldEnergyCont = 0
    /\ newEnergyCont = 0
    /\ accept = FALSE
    /\ draw = -1
    /\ threshold = -1
    /\ sysCalls = 0
    /\ startCount = 0

Init ==
    /\ InitCommon
    /\ pc = "idle"
    /\ agg = <<>>
    /\ per = <<>>
    /\ pair = <<>>

(* ------------------------------------------------------------------ *)
(* Box methods as steps                                                *)
(* ------------------------------------------------------------------ *)
Called(op, idx) ==
    [op |-> op, idx |-> idx, matched |-> (slotOwner = idx),
     prevOp |-> lastCall.op, prevIdx |-> lastCall.idx]

\* how copyMolecule into molecules[k] can end: writing past the end of an
\* array of the destination is undefined
RollbackOutcomes(k) ==
    IF CopyOverflows(moleculesH[k], changedmole) THEN {"crash", "corrupt"} ELSE {"none"}

\* a changeMolecule that does not call saveChangedMole
DoChangeMoleculeNoSave(molIdx) ==
    \E moved \in Perturbations(moleculesH[molIdx], environment) :
        /\ moleculesH' = [moleculesH EXCEPT ![molIdx] = moved]
        /\ lastCall' = Called("changeMolecule", molIdx)
        /\ saved' = moleculesH[molIdx]
        /\ UNCHANGED <<changedmole, slotOwner, fault, stepPool>>

\* a changeMolecule that calls saveChangedMole after the move
DoChangeMoleculeSaveLate(molIdx) ==
    \E moved \in Perturbations(moleculesH[molIdx], environment) :
        /\ changedmole' = saveChangedMole(moved)
        /\ slotOwner' = molIdx
        /\ moleculesH' = [moleculesH EXCEPT ![molIdx] = moved]
        /\ lastCall' = Called("changeMolecule", molIdx)
        /\ saved' = moleculesH[molIdx]
        /\ UNCHANGED <<fault, stepPool>>

\* Box::changeMolecule(molIdx)
DoChangeMolecule(molIdx) ==
    \E moved \in Perturbations(moleculesH[molIdx], environment) :
        /\ changedmole' = saveChangedMole(moleculesH[molIdx])
        /\ slotOwner' = molIdx
        /\ moleculesH' = [moleculesH EXCEPT ![molIdx] = moved]
        /\ lastCall' = Called("changeMolecule", molIdx)
        /\ saved' = moleculesH[molIdx]
        /\ UNCHANGED <<fault, stepPool>>

\* a rejected step that does not call Rollback
DoRollbackSkipped(moleno) ==
    UNCHANGED <<moleculesH, changedmole, fault, slotOwner, lastCall, saved, stepPool>>

\* Box::Rollback(moleno)
DoRollback(moleno) ==
    \E outcome \in RollbackOutcomes(moleno) :
        /\ fault' = outcome
        /\ moleculesH' = IF outcome = "crash" THEN moleculesH
                         ELSE [moleculesH EXCEPT
                                  ![moleno] = Rollback(moleculesH[moleno], changedmole)]
        /\ lastCall' = Called("Rollback", moleno)
        /\ UNCHANGED <<changedmole, slotOwner, saved, stepPool>>

\* writeChangeToDevice(changeIdx): the device copy of the molecule is refreshed
writeChangeToDevice(molsD, molsH, idx) == [molsD EXCEPT ![idx] = molsH[idx]]

(* ------------------------------------------------------------------ *)
(* ParallelSim::runParallel                                            *)
(* ------------------------------------------------------------------ *)
Scratch == [energies |-> energiesD, molBatchH |-> molBatchH, nbrMolsH |-> nbrMolsH]

\* a run that recomputes the system energy whether it is known or not
EnergyUnknownAlways(energy) == TRUE

\* the guard of the full computation at the start of a run
EnergyUnknown(energy) == energy = 0

\* the contribution of changeIdx on the device pool
Contribution ==
    calcMolecularEnergyContribution(moleculesD, environment, energiesD, energyCount,
                                    maxMolSize, changeIdx, DefaultStartIdx)

\* x of the acceptance test
Boltzmann(newCont, oldCont, kT) == RExp(RDiv(-(newCont - oldCont), kT))

\* values of randomFloat(0.0, 1.0) around a threshold x
Draws(x) == {u \in {0, x - 1, x, x + 1, RealScale - 1} : 0 <= u /\ u < RealScale}

\* the draws a step makes: none when the move lowers the energy
StepDraws(newCont, oldCont, kT) ==
    IF newCont < oldCont THEN {-1} ELSE Draws(Boltzmann(newCont, oldCont, kT))

\* the acceptance test
Accepts(newCont, oldCont, kT, u) ==
    IF newCont < oldCont THEN TRUE ELSE Boltzmann(newCont, oldCont, kT) >= u

\* a commit that adds the new contribution without removing the old one
CommittedNoOld(energy, newCont, oldCont) == energy + newCont

\* oldEnergy after an accepted step
Committed(energy, newCont, oldCont) == energy + newCont - oldCont

\* runParallel(n) up to the loop
StartRun ==
    /\ pc = "idle"
    /\ fault = "none"
    /\ \E n \in 0 .. (MaxMoves - (accepted + rejected)) :
        /\ steps' = n
        /\ move' = 0
        /\ startCount' = accepted + rejected
        /\ IF EnergyUnknown(oldEnergy)
           THEN LET sys == calcSystemEnergy(moleculesD, environment, energyCount,
                                            maxMolSize, Scratch)
                IN  /\ oldEnergy' = sys.totalEnergy
                    /\ energiesD' = sys.energies
                    /\ molBatchH' = sys.molBatchH
                    /\ nbrMolsH' = sys.nbrMolsH
                    /\ sysCalls' = 1
           ELSE /\ sysCalls' = 0
                /\ UNCHANGED <<oldEnergy, scratchVars>>
        /\ pc' = "loop"
        /\ UNCHANGED <<environment, boxVars, moleculesD, currentEnergy, accepted, rejected,
                       changeIdx, oldEnergyCont, newEnergyCont, drawVars, aloneVars>>

\* the loop test succeeds: chooseMolecule
ChooseMolecule ==
    /\ pc = "loop"
    /\ fault = "none"
    /\ move < steps
    /\ changeIdx' \in RandomIndex(environment.numOfMolecules)
    /\ stepPool' = moleculesH
    /\ pc' = "oldEval"
    /\ UNCHANGED <<environment, moleculesH, changedmole, fault, slotOwner, lastCall, saved,
                   ncalls, moleculesD, scratchVars, totalVars, steps, move,
                   oldEnergyCont, newEnergyCont, drawVars, sysCalls, startCount, aloneVars>>

\* oldEnergyCont = calcMolecularEnergyContribution(changeIdx)
EvalOld ==
    /\ pc = "oldEval"
    /\ fault = "none"
    /\ LET c == Contribution
       IN  /\ oldEnergyCont' = c.totalEnergy
           /\ energiesD' = c.energies
           /\ molBatchH' = c.molBatchH
           /\ nbrMolsH' = c.nbrMolsH
    /\ pc' = "change"
    /\ UNCHANGED <<environment, boxVars, moleculesD, totalVars, steps, move, changeIdx,
                   newEnergyCont, drawVars, sysCalls, startCount, aloneVars>>

\* innerbox->changeMolecule(changeIdx)
ChangeMolecule ==
    /\ pc = "change"
    /\ fault = "none"
    /\ DoChangeMolecule(changeIdx)
    /\ pc' = "write"
    /\ UNCHANGED <<environment, ncalls, moleculesD, scratchVars, totalVars, stepVars,
                   drawVars, sysCalls, startCount, aloneVars>>

\* writeChangeToDevice(changeIdx) after the move
WriteChange ==
    /\ pc = "write"
    /\ fault = "none"
    /\ moleculesD' = writeChangeToDevice(moleculesD, moleculesH, changeIdx)
    /\ pc' = "newEval"
    /\ UNCHANGED <<environment, boxVars, scratchVars, totalVars, stepVars, drawVars,
                   sysCalls, startCount, aloneVars>>

\* newEnergyCont = calcMolecularEnergyContribution(changeIdx)
EvalNew ==
    /\ pc = "newEval"
    /\ fault = "none"
    /\ LET c == Contribution
       IN  /\ newEnergyCont' = c.totalEnergy
           /\ energiesD' = c.energies
           /\ molBatchH' = c.molBatchH
           /\ nbrMolsH' = c.nbrMolsH
    /\ pc' = "decide"
    /\ UNCHANGED <<environment, boxVars, moleculesD, totalVars, steps, move, changeIdx,
                   oldEnergyCont, drawVars, sysCalls, startCount, aloneVars>>

\* the acceptance test
Decide ==
    /\ pc = "decide"
    /\ fault = "none"
    /\ LET kT == KT(environment.temperature)
       IN  \E u \in StepDraws(newEnergyCont, oldEnergyCont, kT) :
               /\ accept' = Accepts(newEnergyCont, oldEnergyCont, kT, u)
               /\ draw' = u
               /\ threshold' = IF u = -1 THEN -1
                               ELSE Boltzmann(newEnergyCont, oldEnergyCont, kT)
    /\ pc' = "apply"
    /\ UNCHANGED <<environment, boxVars, moleculesD, scratchVars, totalVars, stepVars,
                   sysCalls, startCount, aloneVars>>

\* a commit that increments both counters
CommitCountsBoth ==
    /\ pc = "apply"
    /\ fault = "none"
    /\ accept
    /\ accepted' = accepted + 1
    /\ rejected' = rejected + 1
    /\ oldEnergy' = Committed(oldEnergy, newEnergyCont, oldEnergyCont)
    /\ move' = move + 1
    /\ accept' = FALSE
    /\ draw' = -1
    /\ threshold' = -1
    /\ pc' = "loop"
    /\ UNCHANGED <<environment, boxVars, moleculesD, scratchVars, currentEnergy,
                   steps, changeIdx, oldEnergyCont, newEnergyCont, sysCalls, startCount,
                   aloneVars>>

\* if(accept): the step is committed and the iteration ends
Commit ==
    /\ pc = "apply"
    /\ fault = "none"
    /\ accept
    /\ accepted' = accepted + 1
    /\ oldEnergy' = Committed(oldEnergy, newEnergyCont, oldEnergyCont)
    /\ move' = move + 1
    /\ accept' = FALSE
    /\ draw' = -1
    /\ threshold' = -1
    /\ pc' = "loop"
    /\ UNCHANGED <<environment, boxVars, moleculesD, scratchVars, currentEnergy, rejected,
                   steps, changeIdx, oldEnergyCont, newEnergyCont, sysCalls, startCount, aloneVars>>

\* else: rejected++ and innerbox->Rollback(changeIdx)
Reject ==
    /\ pc = "apply"
    /\ fault = "none"
    /\ ~accept
    /\ rejected' = rejected + 1
    /\ DoRollback(changeIdx)
    /\ pc' = "writeBack"
    /\ UNCHANGED <<environment, ncalls, moleculesD, scratchVars, oldEnergy, currentEnergy,
                   accepted, stepVars, drawVars, sysCalls, startCount, aloneVars>>

\* a rejected iteration that ends without refreshing the device copy
WriteBackSkipped ==
    /\ pc = "writeBack"
    /\ fault = "none"
    /\ move' = move + 1
    /\ accept' = FALSE
    /\ draw' = -1
    /\ threshold' = -1
    /\ pc' = "loop"
    /\ UNCHANGED <<environment, boxVars, moleculesD, scratchVars, totalVars, steps, changeIdx,
                   oldEnergyCont, newEnergyCont, sysCalls, startCount, aloneVars>>

\* writeChangeToDevice(changeIdx) after the rollback; the iteration ends
WriteBack ==
    /\ pc = "writeBack"
    /\ fault = "none"
    /\ moleculesD' = writeChangeToDevice(moleculesD, moleculesH, changeIdx)
    /\ move' = move + 1
    /\ accept' = FALSE
    /\ draw' = -1
    /\ threshold' = -1
    /\ pc' = "loop"
    /\ UNCHANGED <<environment, boxVars, scratchVars, totalVars, steps, changeIdx,
                   oldEnergyCont, newEnergyCont, sysCalls, startCount, aloneVars>>

\* the loop test fails: currentEnergy = oldEnergy and runParallel returns
Return ==
    /\ pc = "loop"
    /\ fault = "none"
    /\ move >= steps
    /\ currentEnergy' = oldEnergy
    /\ pc' = "idle"
    /\ UNCHANGED <<environment, boxVars, moleculesD, scratchVars, oldEnergy, accepted,
                   rejected, stepVars, drawVars, sysCalls, startCount, aloneVars>>

Next ==
    \/ StartRun
    \/ ChooseMolecule
    \/ EvalOld
    \/ ChangeMolecule
    \/ WriteChange
    \/ EvalNew
    \/ Decide
    \/ Commit
    \/ Reject
    \/ WriteBack
    \/ Return

Spec == Init /\ [][Next]_vars

(* ------------------------------------------------------------------ *)
(* The Box methods called directly, in any order                       *)
(* ------------------------------------------------------------------ *)
runVars == <<environment, moleculesD, scratchVars, totalVars, pc, stepVars, drawVars,
             sysCalls, startCount, aloneVars>>

InitBox ==
    /\ InitCommon
    /\ pc = "box"
    /\ agg = <<>>
    /\ per = <<>>
    /\ pair = <<>>

BoxSave ==
    /\ fault = "none"
    /\ ncalls < MaxCalls
    /\ \E moleno \in DOMAIN moleculesH :
        /\ changedmole' = saveChangedMole(moleculesH[moleno])
        /\ slotOwner' = moleno
        /\ lastCall' = Called("saveChangedMole", moleno)
    /\ ncalls' = ncalls + 1
    /\ UNCHANGED <<moleculesH, fault, saved, stepPool, runVars>>

BoxChange ==
    /\ fault = "none"
    /\ ncalls < MaxCalls
    /\ \E molIdx \in DOMAIN moleculesH : DoChangeMolecule(molIdx)
    /\ ncalls' = ncalls + 1
    /\ UNCHANGED runVars

BoxRollback ==
    /\ fault = "none"
    /\ ncalls < MaxCalls
    /\ \E moleno \in DOMAIN moleculesH : DoRollback(moleno)
    /\ ncalls' = ncalls + 1
    /\ UNCHANGED runVars

NextBox ==
    \/ BoxSave
    \/ BoxChange
    \/ BoxRollback

SpecBox == InitBox /\ [][NextBox]_vars

(* ------------------------------------------------------------------ *)
(* The reduction on a buffer of its own                                *)
(* ------------------------------------------------------------------ *)
EnergyValues == {-2, 1}

InitAgg ==
    /\ InitCommon
    /\ pc = "agg"
    /\ \E n \in 1 .. MaxLen :
       \E e \in [0 .. n - 1 -> EnergyValues] :
           agg = [energyCount |-> n, initial |-> e, loop |-> AggStart(e),
                  totalEnergy |-> 0, at |-> "loop"]
    /\ per = <<>>
    /\ pair = <<>>

\* the loop test succeeds: one launch of aggregateEnergies
AggIterate ==
    /\ agg.at = "loop"
    /\ agg.loop.interval < agg.energyCount
    /\ agg' = [agg EXCEPT !.loop = AggPass(agg.loop, agg.energyCount)]
    /\ UNCHANGED <<environment, boxVars, moleculesD, scratchVars, totalVars, pc, stepVars,
                   drawVars, sysCalls, startCount, per, pair>>

\* the loop test fails: slot 0 is read back and cleared
AggFinish ==
    /\ agg.at = "loop"
    /\ agg.loop.interval >= agg.energyCount
    /\ LET r == AggReadBack(agg.loop.energies)
       IN  agg' = [agg EXCEPT !.totalEnergy = r.totalEnergy,
                              !.loop.energies = r.energies,
                              !.at = "done"]
    /\ UNCHANGED <<environment, boxVars, moleculesD, scratchVars, totalVars, pc, stepVars,
                   drawVars, sysCalls, startCount, per, pair>>

NextAgg ==
    \/ AggIterate
    \/ AggFinish

SpecAgg == InitAgg /\ [][NextAgg]_vars

(* ------------------------------------------------------------------ *)
(* makePeriodic on its own                                             *)
(* ------------------------------------------------------------------ *)
InitPer ==
    /\ InitCommon
    /\ pc = "per"
    /\ agg = <<>>
    /\ \E box \in 1 .. MaxBox :
       \E x \in -(2 * MaxBox) .. (2 * MaxBox) :
           per = [x |-> x, box |-> box, out |-> 0, at |-> "call"]
    /\ pair = <<>>

PerCall ==
    /\ per.at = "call"
    /\ per' = [per EXCEPT !.out = makePeriodic(per.x, per.box), !.at = "done"]
    /\ UNCHANGED <<environment, boxVars, moleculesD, scratchVars, totalVars, pc, stepVars,
                   drawVars, sysCalls, startCount, agg, pair>>

NextPer == PerCall

SpecPer == InitPer /\ [][NextPer]_vars

(* ------------------------------------------------------------------ *)
(* One cell of calcInterAtomicEnergy with its atoms in both orders     *)
(* ------------------------------------------------------------------ *)
PairBoxes ==
    {[InitEnvironment EXCEPT !.x = R(4), !.y = R(2), !.z = R(1)],
     [InitEnvironment EXCEPT !.x = R(3), !.y = R(2), !.z = R(1)]}

PairAtoms ==
    {MkAtom(x, y, 0, p[1], p[2], p[3]) :
        x \in 0 .. 3, y \in 0 .. 1,
        p \in {<<95, R(1), 10>>, <<R(2), R(1), -10>>, <<-R(1), -R(1), 50>>}}

\* the condition under which a cell of two atoms is written
PairActive(atom1, atom2) ==
    atom1.sigma >= 0 /\ atom1.epsilon >= 0 /\ atom2.sigma >= 0 /\ atom2.epsilon >= 0

\* what the cell of (atom1, atom2) holds after the kernel, from a clean buffer
PairCell(atom1, atom2, enviro) ==
    IF PairActive(atom1, atom2) THEN CellEnergy(atom1, atom2, enviro) ELSE 0

InitPair ==
    /\ InitCommon
    /\ pc = "pair"
    /\ agg = <<>>
    /\ per = <<>>
    /\ \E a \in PairAtoms : \E b \in PairAtoms : \E e \in PairBoxes :
           pair = [atom1 |-> a, atom2 |-> b, enviro |-> e,
                   e12 |-> 0, e21 |-> 0, r12 |-> 0, r21 |-> 0,
                   lj |-> 0, charge |-> 0, divisors |-> {}, at |-> "call"]

PairEval ==
    /\ pair.at = "call"
    /\ pair' = [pair EXCEPT
                   !.e12 = PairCell(pair.atom1, pair.atom2, pair.enviro),
                   !.e21 = PairCell(pair.atom2, pair.atom1, pair.enviro),
                   !.r12 = AtomR2(pair.atom1, pair.atom2, pair.enviro),
                   !.r21 = AtomR2(pair.atom2, pair.atom1, pair.enviro),
                   !.lj = calc_lj(pair.atom1, pair.atom2,
                                  AtomR2(pair.atom1, pair.atom2, pair.enviro)),
                   !.charge = calcCharge(pair.atom1.charge, pair.atom2.charge,
                                         RSqrt(AtomR2(pair.atom1, pair.atom2, pair.enviro))),
                   !.divisors = LjDivisors(AtomR2(pair.atom1, pair.atom2, pair.enviro))
                                \cup ChargeDivisors(
                                         RSqrt(AtomR2(pair.atom1, pair.atom2, pair.enviro))),
                   !.at = "done"]
    /\ UNCHANGED <<environment, boxVars, moleculesD, scratchVars, totalVars, pc, stepVars,
                   drawVars, sysCalls, startCount, agg, per>>

NextPair == PairEval

SpecPair == InitPair /\ [][NextPair]_vars

(* ------------------------------------------------------------------ *)
(* Properties                                                          *)
(* ------------------------------------------------------------------ *)
RECURSIVE SumFcn(_, _)
SumFcn(f, S) ==
    IF S = {} THEN 0
    ELSE LET k == CHOOSE k \in S : TRUE IN f[k] + SumFcn(f, S \ {k})

SameMolecule(a, b) ==
    /\ a.id = b.id
    /\ a.numOfAtoms = b.numOfAtoms
    /\ a.numOfBonds = b.numOfBonds
    /\ a.numOfAngles = b.numOfAngles
    /\ a.numOfDihedrals = b.numOfDihedrals
    /\ a.numOfHops = b.numOfHops
    /\ a.atoms = b.atoms
    /\ a.bonds = b.bonds
    /\ a.angles = b.angles
    /\ a.dihedrals = b.dihedrals
    /\ a.hops = b.hops

\* Rollback(m) was called right after changeMolecule(m)
RolledBackAfterChange ==
    /\ lastCall.op = "Rollback"
    /\ lastCall.prevOp = "changeMolecule"
    /\ lastCall.prevIdx = lastCall.idx

\* C1: when Rollback(m) follows changeMolecule(m), molecule m has the id,
\* the five counts and the contents of the five sub-arrays it had
\* immediately before changeMolecule(m) was called.
C1_RoundTrip ==
    RolledBackAfterChange => SameMolecule(moleculesH[lastCall.idx], saved)

\* a round trip of the two-atom molecule, which also has a bond and a hop
C1_Witness ==
    /\ RolledBackAfterChange
    /\ lastCall.idx = 1
    /\ moleculesH[1].numOfAtoms = 2
    /\ moleculesH[1].numOfBonds = 1

\* are molecules a and b within the cutoff of each other (primary atoms)
Near(molecules, enviro, a, b) ==
    AtomR2(molecules[a].atoms[enviro.primaryAtomIndex],
           molecules[b].atoms[enviro.primaryAtomIndex], enviro)
        < RMul(enviro.cutoff, enviro.cutoff)

\* the energy of the pair of molecules a and b: the sum of its cells
PairEnergy(molecules, enviro, a, b) ==
    LET cells == (0 .. molecules[a].numOfAtoms - 1) \X (0 .. molecules[b].numOfAtoms - 1)
    IN  SumFcn([c \in cells |-> PairCell(molecules[a].atoms[c[1]],
                                         molecules[b].atoms[c[2]], enviro)], cells)

\* the sum over each within-cutoff pair of molecules of its pair energy
PairSum(molecules, enviro) ==
    LET pairs == {p \in (DOMAIN molecules) \X (DOMAIN molecules) :
                     p[1] < p[2] /\ Near(molecules, enviro, p[1], p[2])}
    IN  SumFcn([p \in pairs |-> PairEnergy(molecules, enviro, p[1], p[2])], pairs)

\* what calcSystemEnergy() would return now
SystemEnergyNow ==
    calcSystemEnergy(moleculesD, environment, energyCount, maxMolSize, Scratch).totalEnergy

\* C2: between the steps of runParallel (the first run starts with
\* oldEnergy = 0) the running total oldEnergy is what calcSystemEnergy()
\* would return for the current pool, the sum over the within-cutoff pairs
\* of molecules of their pair energies.
C2_RunningEnergy ==
    pc = "loop" =>
        /\ oldEnergy = SystemEnergyNow
        /\ oldEnergy = PairSum(moleculesH, environment)

\* a mix of accepted and rejected steps has been completed
C2_Witness ==
    /\ pc = "loop"
    /\ accepted >= 1
    /\ rejected >= 1
    /\ oldEnergy # 0

\* C3: a step is accepted if Enew < Eold, and otherwise if and only if the
\* draw u is strictly less than x = exp(-(Enew - Eold) / kT).
C3_StrictAcceptance ==
    pc = "apply" =>
        (accept <=> (newEnergyCont < oldEnergyCont \/ (draw # -1 /\ draw < threshold)))

\* C4: an accepted step adds Enew - Eold to oldEnergy, increments accepted,
\* leaves rejected alone and calls no Rollback; a rejected step calls
\* Rollback(changeIdx), increments rejected and leaves oldEnergy and
\* accepted alone.
C4_CommitReject ==
    [][pc = "apply" =>
          IF accept
          THEN /\ oldEnergy' = oldEnergy + (newEnergyCont - oldEnergyCont)
               /\ accepted' = accepted + 1
               /\ rejected' = rejected
               /\ lastCall' = lastCall
               /\ moleculesH' = moleculesH
          ELSE /\ lastCall'.op = "Rollback"
               /\ lastCall'.idx = changeIdx
               /\ lastCall'.prevOp = "changeMolecule"
               /\ moleculesH' = [moleculesH EXCEPT ![changeIdx] = saved]
               /\ rejected' = rejected + 1
               /\ oldEnergy' = oldEnergy
               /\ accepted' = accepted]_vars

\* both an accepted and a rejected step have been applied
C4_Witness ==
    /\ pc = "loop"
    /\ accepted >= 1
    /\ rejected >= 1
    /\ lastCall.op = "Rollback"

\* C5: a call of runParallel calls calcSystemEnergy() once before the loop
\* when oldEnergy is 0 at its start and not at all otherwise; no step of the
\* loop calls it, and a step changes oldEnergy only by Enew - Eold.
C5_OneFullComputation ==
    [][/\ pc = "idle" => sysCalls' = (IF oldEnergy = 0 THEN 1 ELSE 0)
       /\ pc # "idle" =>
            /\ sysCalls' = sysCalls
            /\ \/ oldEnergy' = oldEnergy
               \/ /\ pc = "apply"
                  /\ accept
                  /\ oldEnergy' = oldEnergy + (newEnergyCont - oldEnergyCont)]_vars

\* a step of a run that started with a known energy and computed nothing
C5_Witness ==
    /\ pc = "apply"
    /\ sysCalls = 0
    /\ oldEnergy # 0

\* C6: for every buffer length and content, the value read from slot 0
\* after the passes is the sum of the initial elements; every pass
\* launches a lane for every group start 3 * interval * t < energyCount,
\* and no lane touches a slot outside 0 .. energyCount - 1.
C6_Reduction ==
    /\ agg.at = "done" => agg.totalEnergy = SumFcn(agg.initial, DOMAIN agg.initial)
    /\ (agg.at = "loop" /\ agg.loop.interval < agg.energyCount) =>
          LET numBaseThreads == agg.energyCount \div AggBatchSize
              bs    == AggBlockSize(agg.loop.blockSize, numBaseThreads, agg.loop.interval)
              lanes == AggNumLanes(bs, numBaseThreads, agg.loop.interval)
          IN  /\ \A t \in 0 .. agg.energyCount :
                    AggBatchSize * agg.loop.interval * t < agg.energyCount => t < lanes
              /\ \A t \in 0 .. lanes - 1 :
                    AggAccesses(agg.energyCount, agg.loop.interval, AggBatchSize, t)
                        \subseteq 0 .. agg.energyCount - 1

\* a buffer of 10 elements, neither a power nor a multiple of 3, reduced
\* in three passes to a sum that is not 0
C6_Witness ==
    /\ agg.at = "done"
    /\ agg.energyCount = 10
    /\ agg.loop.interval = 27
    /\ agg.totalEnergy # 0

\* the indices createMolBatch(m, s) has to return
Neighbours(m, s) ==
    {i \in DOMAIN moleculesD : i >= s /\ i # m /\ Near(moleculesD, environment, m, i)}

\* C7: createMolBatch(m, s) returns batchSize such that molBatchH[0 ..
\* batchSize) is the strictly ascending list of the indices i >= s, i # m,
\* whose primary atom is nearer to that of m than the cutoff, and every
\* other entry of molBatchH is -1.
C7_BatchContents ==
    \A m \in DOMAIN moleculesD :
    \A s \in 0 .. environment.numOfMolecules :
        LET b == createMolBatch(moleculesD, environment, environment.numOfMolecules, m, s)
        IN  /\ b.batchSize = Cardinality(Neighbours(m, s))
            /\ {b.molBatchH[k] : k \in 0 .. b.batchSize - 1} = Neighbours(m, s)
            /\ \A k \in 0 .. b.batchSize - 2 : b.molBatchH[k] < b.molBatchH[k + 1]
            /\ \A k \in b.batchSize .. environment.numOfMolecules - 1 : b.molBatchH[k] = -1

\* the batch of the middle molecule holds both others, that of another
\* molecule from the same start is not full, and a batch is empty
C7_Witness ==
    LET n == environment.numOfMolecules
    IN  /\ createMolBatch(moleculesD, environment, n, 1, 0).molBatchH = Arr(<<0, 2, -1>>)
        /\ createMolBatch(moleculesD, environment, n, 0, 2).batchSize = 0
        /\ moleculesD # InitMolecules

\* C8 as claimed: makePeriodic(d, L) lies in (-L/2, L/2] and differs from d
\* by a multiple of L.
C8_HalfOpen ==
    per.at = "done" =>
        /\ -per.box < 2 * per.out
        /\ 2 * per.out <= per.box
        /\ (per.out - per.x) % per.box = 0

\* C8: makePeriodic(d, L) lies in the closed interval [-L/2, L/2] and
\* differs from d by a multiple of L.
C8_Closed ==
    per.at = "done" =>
        /\ -per.box <= 2 * per.out
        /\ 2 * per.out <= per.box
        /\ (per.out - per.x) % per.box = 0

\* a difference outside the interval is brought to exactly -L/2
C8_Witness ==
    /\ per.at = "done"
    /\ 2 * per.out = -per.box
    /\ per.x # per.out

\* C9: Rollback(k) with no snapshot of molecule k in the slot halts the run
\* and leaves molecule k as it was.
C9_RollbackHalts ==
    [][(lastCall'.op = "Rollback" /\ ncalls' = ncalls + 1 /\ ~lastCall'.matched) =>
          /\ fault' # "none"
          /\ moleculesH'[lastCall'.idx] = moleculesH[lastCall'.idx]]_vars

\* C10: the cell of (a, b) and the cell of (b, a) hold the same energy, and
\* the squared minimum-image distance is the same in both orders.
C10_Symmetry ==
    pair.at = "done" => (pair.e12 = pair.e21 /\ pair.r12 = pair.r21)

\* two different active atoms half a box apart on the x axis
C10_Witness ==
    /\ pair.at = "done"
    /\ 2 * (pair.atom1.x - pair.atom2.x) = pair.enviro.x
    /\ pair.atom1.sigma # pair.atom2.sigma
    /\ pair.e12 # 0

\* C11: for every pair of atoms at squared minimum-image distance 0,
\* whatever their sigma, epsilon and charge, calc_lj returns exactly 0 and
\* calcCharge returns exactly 0, the cell energy is exactly 0 and no
\* division has a zero divisor.
C11_CoincidentSites ==
    (pair.at = "done" /\ pair.r12 = 0) =>
        /\ pair.lj = 0
        /\ pair.charge = 0
        /\ pair.e12 = 0
        /\ CellEnergy(pair.atom1, pair.atom2, pair.enviro) = 0
        /\ 0 \notin pair.divisors

\* two charged active atoms with different constants, a whole box length
\* apart on the x axis and so on the same site
C11_Witness ==
    /\ pair.at = "done"
    /\ pair.r12 = 0
    /\ pair.atom1.x # pair.atom2.x
    /\ PairActive(pair.atom1, pair.atom2)
    /\ pair.atom1.sigma # pair.atom2.sigma
    /\ pair.atom1.charge * pair.atom2.charge # 0

\* is c in [0, box) and congruent to raw modulo box
Wrapped(c, raw, box) == 0 <= c /\ c < box /\ (c - raw) % box = 0

\* every atom of molecule mole lies in the box on each axis, at a
\* coordinate congruent to that of the same atom of raw
WrappedFrom(mole, raw, enviro) ==
    \A j \in 0 .. mole.numOfAtoms - 1 :
        /\ Wrapped(mole.atoms[j].x, raw.atoms[j].x, enviro.x)
        /\ Wrapped(mole.atoms[j].y, raw.atoms[j].y, enviro.y)
        /\ Wrapped(mole.atoms[j].z, raw.atoms[j].z, enviro.z)

\* what the rotation and translation of changeMolecule make of mole for
\* one outcome of its random draws
Unwrapped(mole, atomIndex, delta, degrees) ==
    moveMolecule(mole, mole.atoms[atomIndex], delta[1], delta[2], delta[3],
                 degrees[1], degrees[2], degrees[3])

\* C12: after changeMolecule(m) every atom of molecule m has on each axis a
\* coordinate in [0, box length) that is congruent modulo the box length to
\* the coordinate the rotation and translation produced.
C12_WrapIntoBox ==
    lastCall.op = "changeMolecule" =>
        \E atomIndex \in RandomIndex(saved.numOfAtoms) :
        \E delta \in Translations(environment) \X Translations(environment)
                        \X Translations(environment) :
        \E degrees \in Rotations(environment) \X Rotations(environment)
                         \X Rotations(environment) :
            WrappedFrom(moleculesH[lastCall.idx],
                        Unwrapped(saved, atomIndex, delta, degrees), environment)

\* the two-atom molecule after a move that took one atom past the upper
\* face on x and both below the lower face on y
C12_Witness ==
    /\ lastCall.op = "changeMolecule"
    /\ lastCall.idx = 1
    /\ \E atomIndex \in RandomIndex(saved.numOfAtoms) :
       \E delta \in Translations(environment) \X Translations(environment)
                       \X Translations(environment) :
           LET raw == Unwrapped(saved, atomIndex, delta, <<0, 0, 0>>)
           IN  /\ WrappedFrom(moleculesH[1], raw, environment)
               /\ raw.atoms[1].x >= environment.x
               /\ raw.atoms[0].y < 0
               /\ raw.atoms[1].y < 0

\* is every slot of the buffer 0
Clean(energies) == \A i \in DOMAIN energies : energies[i] = 0

\* the sum of the cells calcInterAtomicEnergy writes for molecule m and the
\* batch molBatch
ActiveSum(molecules, enviro, m, molBatch) ==
    LET cells == {i \in 0 .. energyCount - 1 :
                     ActiveCell(molecules, m, energyCount, molBatch, maxMolSize, i)}
    IN  SumFcn([i \in cells |-> CellValue(molecules, m, enviro, molBatch, maxMolSize, i)],
               cells)

\* the evaluation of molecule m from start index s on the buffer as it is
\* returns the sum of its own active cells and leaves every slot 0
CleanEvaluation(m, s) ==
    LET c == calcMolecularEnergyContribution(moleculesD, environment, energiesD,
                                             energyCount, maxMolSize, m, s)
    IN  /\ Clean(c.energies)
        /\ c.totalEnergy = ActiveSum(moleculesD, environment, m, c.molBatchH)

\* C13: from a buffer that is 0 before the first evaluation, every slot of
\* the energy buffer is 0 whenever calcInterAtomicEnergy is launched (in a
\* step, and for each molecule of calcSystemEnergy), and every evaluation
\* returns the sum of its own active cells.
C13_CleanBuffer ==
    /\ Clean(energiesD)
    /\ pc \in {"oldEval", "newEval"} => CleanEvaluation(changeIdx, DefaultStartIdx)
    /\ pc = "idle" => \A m \in DOMAIN moleculesD : CleanEvaluation(m, m)

\* the second evaluation of a step, after a full computation and a first
\* evaluation that both left sums other than 0, gives a different sum
C13_Witness ==
    /\ pc = "newEval"
    /\ sysCalls = 1
    /\ oldEnergy # 0
    /\ oldEnergyCont # 0
    /\ Contribution.totalEnergy # 0
    /\ Contribution.totalEnergy # oldEnergyCont
    /\ Clean(energiesD)

\* the launch of aggregateEnergies with its lanes run in descending order,
\* from lane t - 1 down to lane 0
RECURSIVE AggDescending(_, _, _, _, _)
AggDescending(energies, n, interval, batchSize, t) ==
    IF t <= 0 THEN energies
    ELSE AggDescending(aggregateEnergies(energies, n, interval, batchSize, t, t - 1),
                       n, interval, batchSize, t - 1)

\* do the slot sets that W gives the lanes in L not meet
Disjoint(W(_), L) == \A t1 \in L : \A t2 \in L : t1 # t2 => W(t1) \cap W(t2) = {}

\* C14: in a pass of aggregateEnergies with interval i, lane t touches only
\* slots 3it, 3it + i and 3it + 2i, no two lanes touch the same slot, a lane
\* alone changes no slot outside its own, and the lanes in descending
\* order leave the buffer they leave in ascending order; in launches of
\* checkMoleculeDistances and calcInterAtomicEnergy over as many slots no
\* two lanes write the same slot.
C14_NoRace ==
    (agg.at = "loop" /\ agg.loop.interval < agg.energyCount) =>
        LET n     == agg.energyCount
            i     == agg.loop.interval
            e     == agg.loop.energies
            base  == n \div AggBatchSize
            lanes == AggNumLanes(AggBlockSize(agg.loop.blockSize, base, i), base, i)
            Touched(t) == AggAccesses(n, i, AggBatchSize, t)
            Flagged(t) == DistanceLaneWrites(n, t)
            Written(t) == EnergyLaneWrites(n, t)
        IN  /\ Disjoint(Touched, 0 .. lanes - 1)
            /\ \A t \in 0 .. lanes - 1 :
                  /\ Touched(t) \subseteq {3 * i * t, 3 * i * t + i, 3 * i * t + 2 * i}
                  /\ LET alone == aggregateEnergies(e, n, i, AggBatchSize, t + 1, t)
                     IN  \A k \in DOMAIN e : alone[k] # e[k] => k \in Touched(t)
            /\ AggDescending(e, n, i, AggBatchSize, lanes)
                   = aggregateEnergies(e, n, i, AggBatchSize, lanes, 0)
            /\ Disjoint(Flagged, Lanes(n \div MOL_BLOCK + 1, MOL_BLOCK))
            /\ Disjoint(Written, Lanes(n \div BATCH_BLOCK + 1, BATCH_BLOCK))

\* the second pass over 10 slots: lanes 0 and 1 both add slots that hold
\* sums of the first pass
C14_Witness ==
    /\ agg.at = "loop"
    /\ agg.energyCount = 10
    /\ agg.loop.interval = 3
    /\ agg.loop.energies[0] # 0
    /\ agg.loop.energies[3] # 0
    /\ agg.loop.energies[6] # 0
    /\ agg.loop.energies[9] # 0

\* C15: with the device pool equal to the host pool when runParallel
\* starts, the device copy of every molecule equals the host copy at every
\* energy evaluation (the full computation and the two of each step) and
\* at the end of every step.
C15_HostDeviceEqual ==
    pc \in {"idle", "loop", "oldEval", "newEval"} => moleculesD = moleculesH

\* the evaluation of a moved molecule in a step that follows a rejected one
C15_Witness ==
    /\ pc = "newEval"
    /\ rejected >= 1
    /\ lastCall.op = "changeMolecule"
    /\ moleculesH[changeIdx] # saved
    /\ moleculesD[changeIdx] = moleculesH[changeIdx]

\* C16: when runParallel invokes Rollback(k), the slot changedmole holds the
\* snapshot saveChangedMole(k) took of molecule k in this step (molecule k
\* as the step found it), the last Box call was this step's
\* changeMolecule(k), and the Rollback finds its snapshot and ends well.
C16_SingleCheckpoint ==
    /\ (pc = "apply" /\ ~accept) =>
          /\ slotOwner = changeIdx
          /\ lastCall.op = "changeMolecule"
          /\ lastCall.idx = changeIdx
          /\ SameMolecule(changedmole, stepPool[changeIdx])
    /\ pc = "writeBack" =>
          /\ lastCall.op = "Rollback"
          /\ lastCall.idx = changeIdx
          /\ lastCall.matched
          /\ lastCall.prevOp = "changeMolecule"
          /\ lastCall.prevIdx = changeIdx
          /\ fault = "none"

\* a Rollback in a step that follows an accepted move of another molecule,
\* whose snapshot the slot held until this step replaced it
C16_Witness ==
    /\ pc = "writeBack"
    /\ lastCall.matched
    /\ accepted >= 1
    /\ \E i \in DOMAIN stepPool : i # changeIdx /\ stepPool[i] # InitMolecules[i]
    /\ changedmole.id = changeIdx

\* the sum of the pair energies of molecule m with every other molecule
\* within the cutoff
NeighbourSum(molecules, enviro, m) ==
    LET others == {i \in DOMAIN molecules : i # m /\ Near(molecules, enviro, m, i)}
    IN  SumFcn([i \in others |-> PairEnergy(molecules, enviro, m, i)], others)

\* C17: a step goes through choose, evaluate Eold on the pool as the step
\* found it, checkpoint and perturb (the snapshot is molecule m as the step
\* found it), evaluate Enew on the moved pool, decide, commit or roll
\* back, in this order; when the decision is taken both contributions are
\* the complete sums and are not changed any more.
C17_StepOrder ==
    [][/\ (pc = "loop" /\ pc' # "idle") =>
             pc' = "oldEval" /\ moleculesH' = moleculesH
       /\ pc = "oldEval" =>
             /\ pc' = "change"
             /\ moleculesH = stepPool
             /\ moleculesD = stepPool
             /\ oldEnergyCont' = NeighbourSum(stepPool, environment, changeIdx)
       /\ pc = "change" =>
             /\ pc' = "write"
             /\ moleculesH = stepPool
             /\ SameMolecule(changedmole', stepPool[changeIdx])
             /\ oldEnergyCont' = oldEnergyCont
       /\ pc = "write" => pc' = "newEval"
       /\ pc = "newEval" =>
             /\ pc' = "decide"
             /\ moleculesD = moleculesH
             /\ newEnergyCont' = NeighbourSum(moleculesH, environment, changeIdx)
             /\ oldEnergyCont' = oldEnergyCont
       /\ pc = "decide" =>
             /\ pc' = "apply"
             /\ oldEnergyCont' = oldEnergyCont
             /\ newEnergyCont' = newEnergyCont
             /\ moleculesH' = moleculesH
             /\ oldEnergy' = oldEnergy
       /\ pc = "apply" =>
             IF accept THEN pc' = "loop" /\ lastCall' = lastCall
             ELSE pc' = "writeBack" /\ lastCall'.op = "Rollback"
       /\ pc = "writeBack" => pc' = "loop"]_vars

\* the decision of a step has been taken on two different sums, with the
\* snapshot holding the molecule as it was before the move
C17_Witness ==
    /\ pc = "apply"
    /\ move = 1
    /\ oldEnergyCont # newEnergyCont
    /\ oldEnergyCont = NeighbourSum(stepPool, environment, changeIdx)
    /\ newEnergyCont = NeighbourSum(moleculesH, environment, changeIdx)
    /\ moleculesH[changeIdx] # stepPool[changeIdx]
    /\ SameMolecule(changedmole, stepPool[changeIdx])

\* the slot of batch position p, atom x of the molecule and atom y of the
\* batch molecule
Slot(p, x, y) == p * maxMolSize * maxMolSize + x * maxMolSize + y

\* a buffer that holds in every slot a value that is no cell energy
Marked == [i \in 0 .. energyCount - 1 |-> NonFinite]

\* is the cell (p, x, y) of molecule m and batch molBatch to be written
CellIsActive(molecules, m, molBatch, p, x, y) ==
    IF molBatch[p] = -1 THEN FALSE
    ELSE /\ x < molecules[m].numOfAtoms
         /\ y < molecules[molBatch[p]].numOfAtoms
         /\ PairActive(molecules[m].atoms[x], molecules[molBatch[p]].atoms[y])

\* C18: for every molecule m and every batch createMolBatch makes for it
\* (which fits the buffer), calcInterAtomicEnergy gives each triple (p, x,
\* y) the one slot p * maxMolSize^2 + x * maxMolSize + y, writes LJ +
\* Coulomb in it if and only if molBatch[p] # -1, x and y are atoms of the
\* two molecules and both atoms have sigma >= 0 and epsilon >= 0, and
\* leaves every other slot as it was; the reduced sum is the sum of the
\* pair energies of m with the batch molecules.
C18_WorkGrid ==
    pc \in {"oldEval", "newEval"} =>
        \A m \in DOMAIN moleculesD :
        \A s \in DOMAIN moleculesD :
            LET n   == environment.numOfMolecules
                b   == createMolBatch(moleculesD, environment, n, m, s)
                out == calcInterAtomicEnergy(moleculesD, m, environment, Marked,
                                             energyCount, b.molBatchH, maxMolSize)
                sum == calcBatchEnergy(moleculesD, environment, energiesD, energyCount,
                                       b.molBatchH, maxMolSize, b.batchSize, m).totalEnergy
                grid == (0 .. n - 1) \X (0 .. maxMolSize - 1) \X (0 .. maxMolSize - 1)
            IN  /\ b.batchSize * maxMolSize * maxMolSize <= energyCount
                /\ {Slot(c[1], c[2], c[3]) : c \in grid} = 0 .. energyCount - 1
                /\ Cardinality(grid) = energyCount
                /\ \A c \in grid :
                      out[Slot(c[1], c[2], c[3])] =
                          IF CellIsActive(moleculesD, m, b.molBatchH, c[1], c[2], c[3])
                          THEN LET atom1 == moleculesD[m].atoms[c[2]]
                                   atom2 == moleculesD[b.molBatchH[c[1]]].atoms[c[3]]
                                   r2    == AtomR2(atom1, atom2, environment)
                               IN  calc_lj(atom1, atom2, r2)
                                   + calcCharge(atom1.charge, atom2.charge, RSqrt(r2))
                          ELSE Marked[Slot(c[1], c[2], c[3])]
                /\ sum = SumFcn([p \in 0 .. b.batchSize - 1 |->
                                    PairEnergy(moleculesD, environment, m, b.molBatchH[p])],
                                0 .. b.batchSize - 1)

\* the two-atom molecule, moved, has both other molecules in its batch:
\* two cells are written, the two cells of its inert atom and the cells of
\* the absent atoms and of the empty batch position are not
C18_Witness ==
    /\ pc = "newEval"
    /\ changeIdx = 1
    /\ moleculesD[1] # InitMolecules[1]
    /\ LET b   == createMolBatch(moleculesD, environment, environment.numOfMolecules, 1, 0)
           out == calcInterAtomicEnergy(moleculesD, 1, environment, Marked,
                                        energyCount, b.molBatchH, maxMolSize)
       IN  /\ b.batchSize = 2
           /\ Cardinality({i \in DOMAIN out : out[i] # NonFinite}) = 2
           /\ out[Slot(0, 0, 0)] # NonFinite
           /\ out[Slot(1, 0, 0)] # NonFinite
           /\ out[Slot(0, 1, 0)] = NonFinite

\* C19: no step of runParallel modifies the Environment; a step with
\* proposed molecule m modifies no molecule of the host pool but m, and
\* only in changeMolecule and Rollback; after the Rollback of a rejected
\* step the whole host pool is the pool the step found.
C19_OneMolecule ==
    [][/\ environment' = environment
       /\ \A i \in DOMAIN moleculesH :
             moleculesH'[i] # moleculesH[i] => (i = changeIdx /\ pc \in {"change", "apply"})
       /\ pc \notin {"idle", "loop"} =>
             \A i \in DOMAIN moleculesH : i # changeIdx => moleculesH'[i] = stepPool[i]
       /\ (pc = "apply" /\ ~accept) => moleculesH' = stepPool
       /\ pc = "writeBack" => (moleculesH = stepPool /\ moleculesH' = stepPool)]_vars

\* a rejected step after an accepted one: the host pool is again the pool
\* the step found, while the device still holds the rejected move
C19_Witness ==
    /\ pc = "writeBack"
    /\ accepted >= 1
    /\ stepPool # InitMolecules
    /\ moleculesH = stepPool
    /\ moleculesD[changeIdx] # moleculesH[changeIdx]
    /\ environment = InitEnvironment

\* how many statements of an iteration are still to run at position p
Position(p) ==
    CASE p = "loop"      -> 8
      [] p = "oldEval"   -> 7
      [] p = "change"    -> 6
      [] p = "write"     -> 5
      [] p = "newEval"   -> 4
      [] p = "decide"    -> 3
      [] p = "apply"     -> 2
      [] p = "writeBack" -> 1
      [] OTHER           -> 0

\* a bound on the statements the call still has to run: 9 for each
\* iteration not yet begun, and the rest of the current one
Variant == 9 * (steps - move) + Position(pc)

\* the statement at pc can run: nothing has halted the run, and the draws
\* the statement makes have an outcome
CanStep ==
    /\ fault = "none"
    /\ pc = "loop" => RandomIndex(environment.numOfMolecules) # {}
    /\ pc = "change" => Perturbations(moleculesH[changeIdx], environment) # {}
    /\ pc = "decide" =>
          StepDraws(newEnergyCont, oldEnergyCont, KT(environment.temperature)) # {}
    /\ (pc = "apply" /\ ~accept) => RollbackOutcomes(changeIdx) # {}

\* C20: runParallel(steps) with steps >= 0 leaves its loop after exactly
\* `steps` iterations and returns: inside a call the next statement can
\* always run and every statement lowers a variant that is never
\* negative, so the call ends, and it leaves the loop only with move =
\* steps; each iteration increments exactly one of accepted and rejected
\* by 1, so on return accepted + rejected has grown by `steps`, and
\* currentEnergy is the final oldEnergy.
C20_FixedSteps ==
    /\ [](pc # "idle" => CanStep)
    /\ [][/\ pc = "idle" => (steps' >= 0 /\ move' = 0)
          /\ pc # "idle" => (steps' = steps /\ Variant' < Variant /\ Variant' >= 0)
          /\ (pc = "loop" /\ pc' = "oldEval") => move < steps
          /\ IF pc \in {"apply", "writeBack"} /\ pc' = "loop"
             THEN move' = move + 1
             ELSE pc # "idle" => move' = move
          /\ IF pc = "apply"
             THEN \/ accepted' = accepted + 1 /\ rejected' = rejected
                  \/ accepted' = accepted /\ rejected' = rejected + 1
             ELSE accepted' = accepted /\ rejected' = rejected
          /\ pc' = "loop" => accepted' + rejected' = startCount' + move'
          /\ (pc = "loop" /\ pc' = "idle") =>
                /\ move = steps
                /\ accepted + rejected = startCount + steps
                /\ currentEnergy' = oldEnergy
                /\ oldEnergy' = oldEnergy]_vars

\* a call of runParallel(2) has returned after an accepted and a rejected
\* step
C20_Witness ==
    /\ pc = "idle"
    /\ steps = 2
    /\ move = 2
    /\ startCount = 0
    /\ accepted = 1
    /\ rejected = 1
    /\ currentEnergy = oldEnergy
    /\ currentEnergy # 0

====
